---- MODULE Spec2Model ----
(***************************************************************************)
(* Cowbird (src/lib/cowbird.js): a scannerless LR(0) parser generator.     *)
(*                                                                         *)
(* The compiler (Grammar.prototype.__construct) is a pure function of the  *)
(* grammar; it is written here as operators that follow the source phase   *)
(* by phase.  The parse engine (Grammar.prototype.parse) is a state        *)
(* machine: one action per pass of its `while (true)` loop.                *)
(*                                                                         *)
(* Conventions.  Symbol, production and state indices are 0-based as in    *)
(* the source; TLA+ sequences are 1-based, so a JavaScript a[i] reads      *)
(* a[i + 1] here.  Text (input, matched tokens, rendered messages, names   *)
(* of grammar symbols) is a TLA+ string; Len, SubSeq and \o are the        *)
(* string's length, substring and concatenation.                           *)
(***************************************************************************)
EXTENDS Integers, Sequences, FiniteSets, TLC

(***************************************************************************)
(* Bounds of the model.                                                    *)
(***************************************************************************)
\* longest input text enumerated for a single parse call
MaxLen == 3
\* longest input text enumerated when two parse calls are interleaved
MaxLenConc == 2

(***************************************************************************)
(* Grammar notation.  An alternative is a regular expression whose body is *)
(* split on white space into tokens (buildRHS); a token either matches     *)
(* /^<([^>]+)>$/ (a reference, nt = TRUE, text = the inner name) or does   *)
(* not (a terminal pattern, text = the pattern source).  An entry of a     *)
(* non-terminal's list is a regular expression or a function.              *)
(***************************************************************************)
T(text) == [nt |-> FALSE, text |-> text]
N(name) == [nt |-> TRUE, text |-> name]
Re(toks) == [fn |-> "", toks |-> toks]
Fn(id) == [fn |-> id, toks |-> <<>>]

\* The character appended to the start symbol's name (a backquote in the
\* source; written ' here).
AugMarker == "'"

aSTOf(sT) == sT \o AugMarker

\* grammar[this.aST] = [new RegExp('<'+this.sT+'>')]
Augment(grammar, sT) == (aSTOf(sT) :> <<Re(<<N(sT)>>)>>) @@ grammar

(***************************************************************************)
(* General functions.                                                      *)
(***************************************************************************)
\* Array.prototype.indexOf: the 0-based index of the first element equal
\* to v, or -1.
IndexOf(seq, v) ==
  IF \E i \in 1..Len(seq) : seq[i] = v
    THEN (CHOOSE i \in 1..Len(seq) :
            seq[i] = v /\ \A j \in 1..(i - 1) : seq[j] # v) - 1
    ELSE -1

(***************************************************************************)
(* Phase 1: scanning the grammar (saveToken, buildRHS, buildAlternates,    *)
(* buildProductions).  ctx is the workspace the source's closures share:   *)
(* scannedTokens, metrics, augmentedGrammar, and the pending exception.    *)
(***************************************************************************)
NoError == [code |-> 0, arg |-> ""]

\* throw([0x10, lhs])
UndefinedNonTerminal(lhs) == [code |-> 16, arg |-> lhs]

EmptyCtx ==
  [scannedTokens |-> <<>>, metrics |-> <<>>,
   augmentedGrammar |-> <<>>, error |-> NoError]

saveToken(ctx, value, terminal) ==
  LET i == IndexOf(ctx.scannedTokens, value) IN
  IF i = -1
    THEN [ctx EXCEPT
            !.scannedTokens = Append(@, value),
            !.metrics = Append(@, [value |-> value, terminal |-> terminal,
                                   count |-> 1])]
    ELSE [ctx EXCEPT !.metrics[i + 1].count = @ + 1]

RECURSIVE buildProductions(_, _, _)
RECURSIVE buildAlternatesFrom(_, _, _, _, _, _)
RECURSIVE buildRHSFrom(_, _, _, _, _, _)

\* token = (tagMatch[1] === 'this') ? lhs : tagMatch[1]
resolve(tagMatch, lhs) == IF tagMatch.text = "this" THEN lhs ELSE tagMatch.text

\* The body of buildRHS's loop from token i on; rhs is the list built so far.
buildRHSFrom(grammar, ctx, lhs, tokenList, i, rhs) ==
  IF ctx.error # NoError \/ i > Len(tokenList)
    THEN [ctx |-> ctx, rhs |-> rhs]
    ELSE
      LET tagMatch == tokenList[i] IN
      IF ~tagMatch.nt
        THEN buildRHSFrom(grammar, saveToken(ctx, tagMatch.text, TRUE), lhs,
                          tokenList, i + 1, Append(rhs, tagMatch.text))
        ELSE
          LET token == resolve(tagMatch, lhs)
              index == IndexOf(ctx.scannedTokens, token)
              saved == saveToken(ctx, token, FALSE)
              built == IF index = -1
                         THEN buildProductions(grammar, saved, token)
                         ELSE saved
          IN buildRHSFrom(grammar, built, lhs, tokenList, i + 1,
                          Append(rhs, token))

buildRHS(grammar, ctx, lhs, regRHS) ==
  buildRHSFrom(grammar, ctx, lhs, regRHS.toks, 1, <<>>)

\* The body of buildAlternates's loop from entry i on.
buildAlternatesFrom(grammar, ctx, lhs, args, i, productions) ==
  IF ctx.error # NoError \/ i > Len(args)
    THEN [ctx |-> ctx, productions |-> productions]
    ELSE
      LET funMatch == i + 1 <= Len(args) /\ args[i + 1].fn # ""
          r == buildRHS(grammar, ctx, lhs, args[i])
          production == [rhs |-> r.rhs,
                         action |-> IF funMatch THEN args[i + 1].fn ELSE ""]
      IN buildAlternatesFrom(grammar, r.ctx, lhs, args,
                             IF funMatch THEN i + 2 ELSE i + 1,
                             Append(productions, production))

buildAlternates(grammar, ctx, lhs, args) ==
  buildAlternatesFrom(grammar, ctx, lhs, args, 1, <<>>)

buildProductions(grammar, ctx, lhs) ==
  IF ctx.error # NoError THEN ctx
  ELSE IF lhs \in DOMAIN grammar
    THEN
      LET r == buildAlternates(grammar, ctx, lhs, grammar[lhs]) IN
      IF r.ctx.error # NoError THEN r.ctx
      ELSE [r.ctx EXCEPT !.augmentedGrammar = (lhs :> r.productions) @@ @]
    ELSE [ctx EXCEPT !.error = UndefinedNonTerminal(lhs)]

\* saveToken(this.aST, false); buildProductions(this.aST)
Scan(grammar, sT) ==
  buildProductions(Augment(grammar, sT),
                   saveToken(EmptyCtx, aSTOf(sT), FALSE), aSTOf(sT))

(***************************************************************************)
(* Phase 2: ordering the symbols by usage and remapping the productions to *)
(* symbol indices.                                                         *)
(***************************************************************************)
\* One step of metrics.sort(function(a, b) { return b.count - a.count; }):
\* m goes after every entry whose count is at least its own, so entries of
\* equal count keep their discovery order.
InsertMetric(sorted, m) ==
  LET k == Cardinality({i \in 1..Len(sorted) : sorted[i].count >= m.count})
  IN SubSeq(sorted, 1, k) \o <<m>> \o SubSeq(sorted, k + 1, Len(sorted))

RECURSIVE SortFrom(_, _, _)
SortFrom(metrics, i, sorted) ==
  IF i > Len(metrics) THEN sorted
  ELSE SortFrom(metrics, i + 1, InsertMetric(sorted, metrics[i]))

SortMetrics(metrics) == SortFrom(metrics, 1, <<>>)

\* self.tokens: entry i is a RegExp ('^(' + value + ')') when terminal,
\* else the non-terminal's name.
TokensOf(metrics) ==
  [i \in 1..Len(metrics) |->
     [terminal |-> metrics[i].terminal, value |-> metrics[i].value]]

\* self.tokens.indexOf(name): only a string entry can equal a name.
TokenIndexOf(tokens, name) ==
  IndexOf([i \in 1..Len(tokens) |->
             IF tokens[i].terminal THEN "" ELSE tokens[i].value], name)

\* map[symbol] = i
MapOf(metrics) ==
  [s \in {metrics[i].value : i \in 1..Len(metrics)} |->
     (CHOOSE i \in 1..Len(metrics) : metrics[i].value = s) - 1]

\* nonTerminals.push(symbol)
NonTerminalsOf(metrics) ==
  LET nts == SelectSeq(metrics, LAMBDA m : ~m.terminal)
  IN [i \in 1..Len(nts) |-> nts[i].value]

valuesAt(a, b) ==
  LET defined == SelectSeq(a, LAMBDA s : s \in DOMAIN b)
  IN [i \in 1..Len(defined) |-> b[defined[i]]]

\* lhs+'->'+rhs.join(','): the dot position is not part of the text (the
\* copy c that receives the '.' is discarded).  The text determines lhs and
\* rhs and nothing else, so it is kept as that pair.
condense(lhs, rhs, index) == [lhs |-> lhs, rhs |-> rhs]

EmptyRemap ==
  [remappedGrammar |-> <<>>, productions |-> <<>>, actions |-> <<>>,
   condensedProductions |-> <<>>]

\* The inner loop (over j) of the remapping, for one non-terminal.
RECURSIVE RemapAlternatives(_, _, _, _, _)
RemapAlternatives(acc, alternatives, map, lhsIndex, j) ==
  IF j > Len(alternatives) THEN acc
  ELSE
    LET rhs == alternatives[j]
        rhsIndices == valuesAt(rhs.rhs, map)
    IN RemapAlternatives(
         [remappedGrammar |->
            [acc.remappedGrammar EXCEPT ![lhsIndex] = Append(@, rhsIndices)],
          condensedProductions |->
            Append(acc.condensedProductions, condense(lhsIndex, rhsIndices, 0)),
          \* [lhsIndex, rhs.rhs.length]
          productions |->
            Append(acc.productions, [lhs |-> lhsIndex, length |-> Len(rhs.rhs)]),
          \* self.actions[self.productions.length - 1] = rhs.action
          actions |-> Append(acc.actions, rhs.action)],
         alternatives, map, lhsIndex, j + 1)

\* The outer loop (over i) of the remapping.
RECURSIVE RemapFrom(_, _, _, _, _, _)
RemapFrom(acc, nonTerminals, augmentedGrammar, tokens, map, i) ==
  IF i > Len(nonTerminals) THEN acc
  ELSE
    LET lhs == nonTerminals[i]
        lhsIndex == TokenIndexOf(tokens, lhs)
        opened == [acc EXCEPT
                     !.remappedGrammar = (lhsIndex :> <<>>) @@ @]
    IN RemapFrom(
         RemapAlternatives(opened, augmentedGrammar[lhs], map, lhsIndex, 1),
         nonTerminals, augmentedGrammar, tokens, map, i + 1)

Remap(ctx) ==
  LET metrics == SortMetrics(ctx.metrics)
      tokens == TokensOf(metrics)
      r == RemapFrom(EmptyRemap, NonTerminalsOf(metrics), ctx.augmentedGrammar,
                     tokens, MapOf(metrics), 1)
  IN [tokens |-> tokens, productions |-> r.productions,
      actions |-> r.actions, condensedProductions |-> r.condensedProductions,
      augmentedGrammar |-> r.remappedGrammar]

(***************************************************************************)
(* Phase 3: configuration sets.  A configuration is [lhs, rhs, index]; a   *)
(* configuration set is a list.  JSON.stringify of a configuration list    *)
(* is one-to-one on lists, so a serialization is kept as the list itself.  *)
(***************************************************************************)
\* config.rhs[config.index]; -1 stands for undefined (index past the end).
AfterDot(config) ==
  IF config.index < Len(config.rhs) THEN config.rhs[config.index + 1] ELSE -1

\* The inner loop (over j) of closure.
RECURSIVE closureRules(_, _, _, _, _)
closureRules(rhsList, lhs, j, configSet, condensed) ==
  IF j > Len(rhsList) THEN [configSet |-> configSet, condensed |-> condensed]
  ELSE
    LET rhs == rhsList[j]
        rule == [lhs |-> lhs, rhs |-> rhs, index |-> 0]
        ruleString == condense(lhs, rhs, 0)
    IN IF IndexOf(condensed, ruleString) = -1
         THEN closureRules(rhsList, lhs, j + 1, Append(configSet, rule),
                           Append(condensed, ruleString))
         ELSE closureRules(rhsList, lhs, j + 1, configSet, condensed)

\* The outer loop (over i) of closure; configSet grows while it is walked.
RECURSIVE closureFrom(_, _, _, _)
closureFrom(augmentedGrammar, configSet, i, condensed) ==
  IF i > Len(configSet) THEN configSet
  ELSE
    LET lhs == AfterDot(configSet[i]) IN
    IF lhs \in DOMAIN augmentedGrammar
      THEN
        LET r == closureRules(augmentedGrammar[lhs], lhs, 1, configSet,
                              condensed)
        IN closureFrom(augmentedGrammar, r.configSet, i + 1, r.condensed)
      ELSE closureFrom(augmentedGrammar, configSet, i + 1, condensed)

closure(augmentedGrammar, configSet) ==
  closureFrom(augmentedGrammar, configSet, 1, <<>>)

successor(augmentedGrammar, configSet, symbol) ==
  LET advancing == SelectSeq(configSet, LAMBDA config :
                     AfterDot(config) = symbol
                     /\ Len(config.rhs) > config.index)
      set == [i \in 1..Len(advancing) |->
                [advancing[i] EXCEPT !.index = @ + 1]]
  IN IF Len(set) > 0 THEN closure(augmentedGrammar, set) ELSE <<>>

\* Every config.rhs[h] of a configuration set, in the order of the j and h
\* loops.
RECURSIVE SymbolsOf(_, _)
SymbolsOf(configSet, j) ==
  IF j > Len(configSet) THEN <<>>
  ELSE configSet[j].rhs \o SymbolsOf(configSet, j + 1)

\* The h-loop body, for the k-th symbol of state i.
RECURSIVE generateSymbols(_, _, _, _, _)
generateSymbols(augmentedGrammar, sets, configSet, symbols, k) ==
  IF k > Len(symbols) THEN sets
  ELSE
    LET next == successor(augmentedGrammar, configSet, symbols[k])
        nextString == next
        nextIndex == IndexOf(sets.condensedConfigSets, nextString)
    IN generateSymbols(
         augmentedGrammar,
         IF nextIndex = -1 /\ Len(next) > 0
           THEN [configSets |-> Append(sets.configSets, next),
                 condensedConfigSets |->
                   Append(sets.condensedConfigSets, nextString)]
           ELSE sets,
         configSet, symbols, k + 1)

\* The i-loop: configSets is the worklist and grows while it is walked.
RECURSIVE generateFrom(_, _, _)
generateFrom(augmentedGrammar, sets, i) ==
  IF i > Len(sets.configSets) THEN sets
  ELSE generateFrom(
         augmentedGrammar,
         generateSymbols(augmentedGrammar, sets, sets.configSets[i],
                         SymbolsOf(sets.configSets[i], 1), 1),
         i + 1)

\* configSets[0] = closure([{lhs: indexOf(aST), rhs: [indexOf(sT)], index: 0}])
InitialConfigSet(remapped, sT) ==
  closure(remapped.augmentedGrammar,
          <<[lhs |-> TokenIndexOf(remapped.tokens, aSTOf(sT)),
             rhs |-> <<TokenIndexOf(remapped.tokens, sT)>>,
             index |-> 0]>>)

GenerateConfigSets(remapped, sT) ==
  generateFrom(remapped.augmentedGrammar,
               [configSets |-> <<InitialConfigSet(remapped, sT)>>,
                condensedConfigSets |-> <<>>], 1)

(***************************************************************************)
(* Phase 4: the LR(0) parse table.  A row is [t0, t1]: t0 is row[0], the   *)
(* terminal table (shift, reduce and accept entries), t1 is row[1], the    *)
(* goto table.  A table that was never initialised is the empty function.  *)
(***************************************************************************)
\* The key '$' of a terminal table.
Dollar == -1

EmptyRow == [t0 |-> <<>>, t1 |-> <<>>]

\* tableEntry with the shift or goto action taken as the position in
\* condensedConfigSets (no + 1)
tableEntryUnshifted(remapped, sets, sT, configSet, config) ==
  IF config.index = Len(config.rhs)
    THEN
      [table |-> 0, token |-> Dollar,
       action |->
         IF remapped.tokens[config.lhs + 1].terminal
            \/ remapped.tokens[config.lhs + 1].value # aSTOf(sT)
           THEN
             LET configStr == condense(config.lhs, config.rhs, 0)
                 productionIndex ==
                   IndexOf(remapped.condensedProductions, configStr)
             IN (productionIndex * (-1)) - 1
           ELSE 0]
    ELSE
      LET token == AfterDot(config)
          nextSet == successor(remapped.augmentedGrammar, configSet, token)
      IN [table |-> IF ~remapped.tokens[token + 1].terminal THEN 1 ELSE 0,
          token |-> token,
          action |-> IndexOf(sets.condensedConfigSets, nextSet)]

\* tableEntry with the reduce action taken as the negated production index
\* (no - 1)
tableEntryNegated(remapped, sets, sT, configSet, config) ==
  IF config.index = Len(config.rhs)
    THEN
      [table |-> 0, token |-> Dollar,
       action |->
         IF remapped.tokens[config.lhs + 1].terminal
            \/ remapped.tokens[config.lhs + 1].value # aSTOf(sT)
           THEN
             LET configStr == condense(config.lhs, config.rhs, 0)
                 productionIndex ==
                   IndexOf(remapped.condensedProductions, configStr)
             IN productionIndex * (-1)
           ELSE 0]
    ELSE
      LET token == AfterDot(config)
          nextSet == successor(remapped.augmentedGrammar, configSet, token)
      IN [table |-> IF ~remapped.tokens[token + 1].terminal THEN 1 ELSE 0,
          token |-> token,
          action |-> IndexOf(sets.condensedConfigSets, nextSet) + 1]

\* The (table, token, action) one configuration contributes to its row.
tableEntry(remapped, sets, sT, configSet, config) ==
  IF config.index = Len(config.rhs)
    THEN
      [table |-> 0, token |-> Dollar,
       action |->
         IF remapped.tokens[config.lhs + 1].terminal
            \/ remapped.tokens[config.lhs + 1].value # aSTOf(sT)
           THEN
             LET configStr == condense(config.lhs, config.rhs, 0)
                 productionIndex ==
                   IndexOf(remapped.condensedProductions, configStr)
             IN (productionIndex * (-1)) - 1
           ELSE 0]
    ELSE
      LET token == AfterDot(config)
          nextSet == successor(remapped.augmentedGrammar, configSet, token)
      IN [table |-> IF ~remapped.tokens[token + 1].terminal THEN 1 ELSE 0,
          token |-> token,
          action |-> IndexOf(sets.condensedConfigSets, nextSet) + 1]

\* assignAction with the last writer winning (no test for void(0))
assignActionLast(row, e) ==
  IF e.table = 0
    THEN [row EXCEPT !.t0 = (e.token :> e.action) @@ @]
    ELSE [row EXCEPT !.t1 = (e.token :> e.action) @@ @]

\* assignAction with the table of the slot made anew at each assignment
\* (row[table] = {} in place of row[table] = row[table] || {})
assignActionAnew(row, e) ==
  IF e.table = 0
    THEN [row EXCEPT !.t0 = (e.token :> e.action)]
    ELSE [row EXCEPT !.t1 = (e.token :> e.action)]

\* if (row[table][token] === void(0)) { row[table][token] = action; }
assignAction(row, e) ==
  IF e.table = 0
    THEN IF e.token \in DOMAIN row.t0 THEN row
         ELSE [row EXCEPT !.t0 = (e.token :> e.action) @@ @]
    ELSE IF e.token \in DOMAIN row.t1 THEN row
         ELSE [row EXCEPT !.t1 = (e.token :> e.action) @@ @]

\* The j-loop of the table construction, for one state.
RECURSIVE buildRow(_, _, _, _, _, _)
buildRow(remapped, sets, sT, configSet, j, row) ==
  IF j > Len(configSet) THEN row
  ELSE buildRow(remapped, sets, sT, configSet, j + 1,
                assignAction(row, tableEntry(remapped, sets, sT, configSet,
                                             configSet[j])))

BuildTable(remapped, sets, sT) ==
  [i \in 1..Len(sets.configSets) |->
     buildRow(remapped, sets, sT, sets.configSets[i], 1, EmptyRow)]

(***************************************************************************)
(* The constructor.  A Grammar object is [sT, aST, tokens, productions,    *)
(* actions, table] (configSets is kept as with the debug flag).  When      *)
(* __construct throws, displayError renders the message and throws it: no  *)
(* object results (constructed = FALSE, thrown = the message).             *)
(***************************************************************************)
\* constructError(errors[0x10]) applied to [lhs]:
\* 'The non-terminal "$$0" is not defined in the grammar.'
displayError(e) ==
  IF e.code = 16
    THEN "The non-terminal \"" \o e.arg \o "\" is not defined in the grammar."
    ELSE ""

Grammar(grammar, sT) ==
  LET ctx == Scan(grammar, sT) IN
  IF ctx.error # NoError
    THEN [constructed |-> FALSE, thrown |-> displayError(ctx.error),
          sT |-> sT, aST |-> aSTOf(sT), tokens |-> <<>>, productions |-> <<>>,
          actions |-> <<>>, table |-> <<>>, configSets |-> <<>>]
    ELSE
      LET remapped == Remap(ctx)
          sets == GenerateConfigSets(remapped, sT)
      IN [constructed |-> TRUE, thrown |-> "",
          sT |-> sT, aST |-> aSTOf(sT), tokens |-> remapped.tokens,
          productions |-> remapped.productions, actions |-> remapped.actions,
          table |-> BuildTable(remapped, sets, sT),
          configSets |-> sets.configSets]

(***************************************************************************)
(* The constructor step by step, with the configurations as objects.  A    *)
(* configuration is a cell of heap, a configuration set a list of cell     *)
(* numbers: what successor and closure copy, share or write is seen here.  *)
(* The right-hand sides are never written after the remapping and stay     *)
(* values.  ws is the workspace of __construct: its locals and the phase   *)
(* it is in; i and k are the state and the symbol (the j and h loops       *)
(* flattened) the generation has come to.                                  *)
(***************************************************************************)
\* JSON.stringify(configSet): the configurations of the cells, in order
Deref(heap, ids) == [n \in 1..Len(ids) |-> heap[ids[n]]]

\* clone with no copy made: config = configSet[i]
cloneAlias(heap, id) == [heap |-> heap, id |-> id]

\* clone(a): a copy of cell id in a new cell
clone(heap, id) == [heap |-> Append(heap, heap[id]), id |-> Len(heap) + 1]

\* The loop of successor from the i-th configuration on.  A clone that is
\* not pushed is unreachable and is not kept.
RECURSIVE successorFrom(_, _, _, _, _)
successorFrom(heap, configSet, symbol, i, set) ==
  IF i > Len(configSet) THEN [heap |-> heap, set |-> set]
  ELSE
    LET c == clone(heap, configSet[i])
        config == c.heap[c.id]
    IN IF AfterDot(config) = symbol /\ Len(config.rhs) > config.index
         THEN successorFrom([c.heap EXCEPT ![c.id].index = @ + 1], configSet,
                            symbol, i + 1, Append(set, c.id))
         ELSE successorFrom(heap, configSet, symbol, i + 1, set)

\* closure(set) on cells: the rules it pushes are new objects, the cells of
\* its argument are read only.
closureCells(heap, augmentedGrammar, set) ==
  LET closed == closure(augmentedGrammar, Deref(heap, set))
      rules == SubSeq(closed, Len(set) + 1, Len(closed))
  IN [heap |-> heap \o rules,
      set |-> set \o [n \in 1..Len(rules) |-> Len(heap) + n]]

successorCells(heap, augmentedGrammar, configSet, symbol) ==
  LET r == successorFrom(heap, configSet, symbol, 1, <<>>)
  IN IF Len(r.set) > 0 THEN closureCells(r.heap, augmentedGrammar, r.set)
     ELSE [heap |-> r.heap, set |-> <<>>]

NoRemap ==
  [tokens |-> <<>>, productions |-> <<>>, actions |-> <<>>,
   condensedProductions |-> <<>>, augmentedGrammar |-> <<>>]

\* The workspace before new Grammar(input.grammar, input.sT) runs.
Unstarted(input) ==
  [phase |-> "new", input |-> input, remapped |-> NoRemap, thrown |-> "",
   heap |-> <<>>, configSets |-> <<>>, condensedConfigSets |-> <<>>,
   i |-> 1, k |-> 1, from |-> 0, symbol |-> -1, next |-> <<>>]

\* The workspace of a program that is not constructing.
NoWorkspace == [Unstarted([sT |-> "", grammar |-> <<>>]) EXCEPT !.phase = "none"]

\* config.rhs[h] for every configuration j of state i, as the loops reach them
symbolsAt(ws) == SymbolsOf(Deref(ws.heap, ws.configSets[ws.i]), 1)

\* The loop counters moved to the next symbol there is, or past the last
\* state.
RECURSIVE advance(_)
advance(ws) ==
  IF ws.i > Len(ws.configSets) THEN ws
  ELSE IF ws.k <= Len(symbolsAt(ws)) THEN ws
  ELSE advance([ws EXCEPT !.i = @ + 1, !.k = 1])

\* From the augmentation to the closure of the initial configuration set.
begin(ws) ==
  LET ctx == Scan(ws.input.grammar, ws.input.sT) IN
  IF ctx.error # NoError
    THEN [ws EXCEPT !.phase = "failed", !.thrown = displayError(ctx.error)]
    ELSE
      LET remapped == Remap(ctx)
          initial == InitialConfigSet(remapped, ws.input.sT)
      IN [ws EXCEPT !.phase = "generate", !.remapped = remapped,
                    !.heap = initial,
                    !.configSets = <<[n \in 1..Len(initial) |-> n]>>]

\* visit that saves an empty successor too (no next.length > 0)
visitKeepEmpty(ws) ==
  LET symbol == symbolsAt(ws)[ws.k]
      r == successorCells(ws.heap, ws.remapped.augmentedGrammar,
                          ws.configSets[ws.i], symbol)
      nextString == Deref(r.heap, r.set)
      nextIndex == IndexOf(ws.condensedConfigSets, nextString)
      saved == nextIndex = -1
  IN advance([ws EXCEPT
       !.heap = IF saved THEN r.heap ELSE SubSeq(r.heap, 1, Len(ws.heap)),
       !.configSets = IF saved THEN Append(@, r.set) ELSE @,
       !.condensedConfigSets = IF saved THEN Append(@, nextString) ELSE @,
       !.k = @ + 1, !.from = ws.i, !.symbol = symbol, !.next = nextString])

\* The body of the h loop for the symbol the generation has come to.  The
\* cells of a successor that is not saved are unreachable and are not kept.
visit(ws) ==
  LET symbol == symbolsAt(ws)[ws.k]
      r == successorCells(ws.heap, ws.remapped.augmentedGrammar,
                          ws.configSets[ws.i], symbol)
      nextString == Deref(r.heap, r.set)
      nextIndex == IndexOf(ws.condensedConfigSets, nextString)
      saved == nextIndex = -1 /\ Len(r.set) > 0
  IN advance([ws EXCEPT
       !.heap = IF saved THEN r.heap ELSE SubSeq(r.heap, 1, Len(ws.heap)),
       !.configSets = IF saved THEN Append(@, r.set) ELSE @,
       !.condensedConfigSets = IF saved THEN Append(@, nextString) ELSE @,
       !.k = @ + 1, !.from = ws.i, !.symbol = symbol, !.next = nextString])

\* The configuration sets as lists of configurations.
setsOf(ws) ==
  [configSets |-> [s \in 1..Len(ws.configSets) |-> Deref(ws.heap, ws.configSets[s])],
   condensedConfigSets |-> ws.condensedConfigSets]

\* The table construction, and the object new Grammar returns.
finish(ws) ==
  [constructed |-> TRUE, thrown |-> "",
   sT |-> ws.input.sT, aST |-> aSTOf(ws.input.sT),
   tokens |-> ws.remapped.tokens, productions |-> ws.remapped.productions,
   actions |-> ws.remapped.actions,
   table |-> BuildTable(ws.remapped, setsOf(ws), ws.input.sT),
   configSets |-> setsOf(ws).configSets]

\* No object: the constructor has not returned.
NoObject ==
  [constructed |-> FALSE, thrown |-> "", sT |-> "", aST |-> "",
   tokens |-> <<>>, productions |-> <<>>, actions |-> <<>>, table |-> <<>>,
   configSets |-> <<>>]

(***************************************************************************)
(* The parse engine.                                                       *)
(***************************************************************************)
\* stream.substr(index)
substr(stream, index) == SubSeq(stream, index + 1, Len(stream))

\* The width of the excerpt in the 0xA1 error.
ExcerptLength == 40

\* excerpt without the limit: stream.substr(index)
excerptWhole(stream, index) == SubSeq(stream, index + 1, Len(stream))

\* stream.substr(index, 40)
excerpt(stream, index) ==
  SubSeq(stream, index + 1,
         IF index + ExcerptLength < Len(stream) THEN index + ExcerptLength
         ELSE Len(stream))

\* search.exec(text) for search = new RegExp('^(' + value + ')'), no flags
\* (so exec keeps no lastIndex between calls).  The pattern sources of the
\* grammars below are plain literals: the match is the literal when text
\* starts with it.  match[1] is the matched text.
exec(search, text) ==
  IF Len(text) >= Len(search.value)
     /\ SubSeq(text, 1, Len(search.value)) = search.value
    THEN [matched |-> TRUE, text |-> search.value]
    ELSE [matched |-> FALSE, text |-> ""]

\* whitespace with no space skipped
whitespaceNone(text) == 0

\* whitespace with /^( )/: one space skipped at most
whitespaceOne(text) ==
  IF Len(text) > 0 /\ SubSeq(text, 1, 1) = " " THEN 1 ELSE 0

\* /^( +)/.exec(text): the length of the run of spaces text starts with.
RECURSIVE whitespace(_)
whitespace(text) ==
  IF Len(text) > 0 /\ SubSeq(text, 1, 1) = " "
    THEN 1 + whitespace(SubSeq(text, 2, Len(text)))
    ELSE 0

\* The order of `for (key in action)`: integer keys ascending, then '$'.
RECURSIVE ascending(_)
ascending(S) ==
  IF S = {} THEN <<>>
  ELSE LET m == CHOOSE k \in S : \A o \in S : k <= o
       IN <<m>> \o ascending(S \ {m})

keysOf(action) ==
  ascending(DOMAIN action \ {Dollar})
    \o (IF Dollar \in DOMAIN action THEN <<Dollar>> ELSE <<>>)

Undefined == [defined |-> FALSE, value |-> "", successor |-> 0]

\* longer with the comparison turned: match[1].length < longest.value.length
longerTurned(match, longest) ==
  match.matched /\ (~longest.defined \/ Len(match.text) < Len(longest.value))

\* match && (!longest || match[1].length > longest.value.length)
longer(match, longest) ==
  match.matched /\ (~longest.defined \/ Len(match.text) > Len(longest.value))

\* scanKeys with the accept entry taken wherever the scan position is
\* (successor === 0 without stream.length === index)
RECURSIVE scanKeysAnywhere(_, _, _, _, _, _)
scanKeysAnywhere(self, action, keys, k, text, found) ==
  IF k > Len(keys) THEN found
  ELSE
    LET key == keys[k]
        succ == action[key]
    IN scanKeysAnywhere(self, action, keys, k + 1, text,
         IF succ > 0
           THEN
             LET match == exec(self.tokens[key + 1], text) IN
             IF longer(match, found.longest)
               THEN [found EXCEPT !.longest =
                       [defined |-> TRUE, value |-> match.text,
                        successor |-> succ]]
               ELSE found
         ELSE IF succ < 0
           THEN [found EXCEPT !.reduction = succ, !.hasReduction = TRUE]
         ELSE IF succ = 0
           THEN [found EXCEPT !.reduction = 0, !.hasReduction = TRUE]
         ELSE found)

\* The body of findLongest's loop from the k-th key on.  found is
\* [longest, reduction, hasReduction].
RECURSIVE scanKeys(_, _, _, _, _, _)
scanKeys(self, action, keys, k, text, found) ==
  IF k > Len(keys) THEN found
  ELSE
    LET key == keys[k]
        succ == action[key]
    IN scanKeys(self, action, keys, k + 1, text,
         IF succ > 0
           THEN
             LET match == exec(self.tokens[key + 1], text) IN
             IF longer(match, found.longest)
               THEN [found EXCEPT !.longest =
                       [defined |-> TRUE, value |-> match.text,
                        successor |-> succ]]
               ELSE found
         ELSE IF succ < 0
           THEN [found EXCEPT !.reduction = succ, !.hasReduction = TRUE]
         ELSE IF succ = 0 /\ Len(text) = 0
           THEN [found EXCEPT !.reduction = 0, !.hasReduction = TRUE]
         ELSE found)

\* findLongest with the branches after the loop in the other order: a
\* recorded reduction is returned before a match is looked at
findLongestReduceFirst(self, action, stream, index) ==
  LET found == scanKeys(self, action, keysOf(action), 1, substr(stream, index),
                        [longest |-> Undefined, reduction |-> 0,
                         hasReduction |-> FALSE])
  IN IF found.hasReduction
       THEN [kind |-> "reduction", tokenIndex |-> found.reduction,
             value |-> "", index |-> index]
     ELSE IF found.longest.defined
       THEN
         LET past == index + Len(found.longest.value) IN
         [kind |-> "shift", tokenIndex |-> found.longest.successor,
          value |-> found.longest.value,
          index |-> past + whitespace(substr(stream, past))]
     ELSE [kind |-> "none", tokenIndex |-> 0, value |-> "", index |-> index]

\* findLongest(): what it returns and the index it leaves.  kind is
\* "shift" for [successor, value], "reduction" for [reduction], "none" for
\* undefined.
findLongest(self, action, stream, index) ==
  LET found == scanKeys(self, action, keysOf(action), 1, substr(stream, index),
                        [longest |-> Undefined, reduction |-> 0,
                         hasReduction |-> FALSE])
  IN IF found.longest.defined
       THEN
         LET past == index + Len(found.longest.value) IN
         [kind |-> "shift", tokenIndex |-> found.longest.successor,
          value |-> found.longest.value,
          index |-> past + whitespace(substr(stream, past))]
     ELSE IF found.hasReduction
       THEN [kind |-> "reduction", tokenIndex |-> found.reduction,
             value |-> "", index |-> index]
     ELSE [kind |-> "none", tokenIndex |-> 0, value |-> "", index |-> index]

getCurrentState(stack) == stack[Len(stack)]

\* splice that removes one entry more: a.splice(a.length - n - 1, n + 1)
spliceOneMore(a, n) ==
  LET start == IF Len(a) - n - 1 < 0 THEN 0 ELSE Len(a) - n - 1
  IN [kept |-> SubSeq(a, 1, start), removed |-> SubSeq(a, start + 1, Len(a))]

\* a.splice(a.length - n, n): a negative start counts from the front at 0.
\* removed is what splice returns, kept what it leaves.
splice(a, n) ==
  LET start == IF Len(a) - n < 0 THEN 0 ELSE Len(a) - n
  IN [kept |-> SubSeq(a, 1, start), removed |-> SubSeq(a, start + 1, Len(a))]

\* A semantic action is the caller's function; the ones of the grammars
\* below return their name applied to the arguments they received, joined
\* by commas, so a result shows how many arguments came and in what order.
RECURSIVE join(_, _)
join(args, i) ==
  IF i > Len(args) THEN ""
  ELSE (IF i > 1 THEN "," ELSE "") \o args[i] \o join(args, i + 1)

apply(fn, args) == fn \o "(" \o join(args, 1) \o ")"

\* The locals of one parse call.  pc: "idle" (not called yet), "loop" (at
\* the top of while (true)), "action" (inside a semantic action, between
\* values.splice and values.push), "returned", "threw".  ret is <<values>>
\* once parse returned values and <<>> while it has returned nothing; last
\* names the branch the latest pass took.
\* History, not read by the engine: owners[i] is the position in the state
\* stack of the grammar symbol that values[i] was matched or produced for;
\* argOwners and base are the owners of args and the height of the state
\* stack below the symbols of the production being reduced.
Idle ==
  [pc |-> "idle", stream |-> "", index |-> 0, stack |-> <<>>, values |-> <<>>,
   productionIndex |-> -1, args |-> <<>>, ret |-> <<>>, thrown |-> "",
   last |-> "none", owners |-> <<>>, argOwners |-> <<>>, base |-> 0]

\* enter with values kept from the call before (values held by the object)
enterStale(call, stream) ==
  [pc |-> "loop", stream |-> stream, index |-> 0, stack |-> <<0>>,
   values |-> call.values, productionIndex |-> -1, args |-> <<>>,
   ret |-> <<>>, thrown |-> "", last |-> "enter", owners |-> call.owners,
   argOwners |-> <<>>, base |-> 0]

\* var index = 0, state = 0, stack = [state], values = []
enter(call, stream) ==
  [pc |-> "loop", stream |-> stream, index |-> 0, stack |-> <<0>>,
   values |-> <<>>, productionIndex |-> -1, args |-> <<>>, ret |-> <<>>,
   thrown |-> "", last |-> "enter", owners |-> <<>>, argOwners |-> <<>>,
   base |-> 0]

\* The token of the pass that starts in `call`.
tokenOf(self, call) ==
  findLongest(self, self.table[getCurrentState(call.stack) + 1].t0,
              call.stream, call.index)

\* shift with the matched text not pushed on the values
shiftSilent(call, token) ==
  [call EXCEPT !.index = token.index,
               !.stack = Append(@, token.tokenIndex),
               !.last = "shift"]

\* if (token && token[1] !== undefined) { values.push(token[1]); }
\* if (tokenIndex > 0) { stack.push(tokenIndex); }
shift(call, token) ==
  [call EXCEPT !.index = token.index,
               !.values = Append(@, token.value),
               !.stack = Append(@, token.tokenIndex),
               !.last = "shift",
               !.owners = Append(@, Len(call.stack) + 1)]

\* reduce with values.splice done whether or not the production has an
\* action
reducePopping(self, call, token) ==
  LET productionIndex == (token.tokenIndex + 1) * (-1)
      rule == self.productions[productionIndex + 1]
      popped == splice(call.stack, rule.length).kept
  IN
  IF popped = <<>>
    THEN [call EXCEPT !.pc = "threw", !.stack = popped,
                      !.thrown = "TypeError", !.last = "reduce"]
    ELSE
      LET goTo == self.table[getCurrentState(popped) + 1]
          stack == IF rule.lhs \in DOMAIN goTo.t1 /\ goTo.t1[rule.lhs] # 0
                     THEN Append(popped, goTo.t1[rule.lhs])
                     ELSE popped
          args == splice(call.values, rule.length)
      IN
      IF self.actions[productionIndex + 1] # ""
        THEN [call EXCEPT !.pc = "action", !.stack = stack,
                          !.values = args.kept, !.args = args.removed,
                          !.productionIndex = productionIndex,
                          !.last = "reduce",
                          !.owners = SubSeq(call.owners, 1, Len(args.kept)),
                          !.argOwners = splice(call.owners, rule.length).removed,
                          !.base = Len(popped)]
        ELSE [call EXCEPT !.stack = stack,
                          !.values = args.kept,
                          !.productionIndex = productionIndex,
                          !.last = "reduce",
                          !.owners = SubSeq(call.owners, 1, Len(args.kept))]

\* else if (tokenIndex < 0) { ... } up to the call of the action.  With the
\* state stack emptied, this.table[undefined][1] is a TypeError, which
\* parse's catch rethrows.
reduce(self, call, token) ==
  LET productionIndex == (token.tokenIndex + 1) * (-1)
      rule == self.productions[productionIndex + 1]
      popped == splice(call.stack, rule.length).kept
  IN
  IF popped = <<>>
    THEN [call EXCEPT !.pc = "threw", !.stack = popped,
                      !.thrown = "TypeError", !.last = "reduce"]
    ELSE
      LET goTo == self.table[getCurrentState(popped) + 1]
          stack == IF rule.lhs \in DOMAIN goTo.t1 /\ goTo.t1[rule.lhs] # 0
                     THEN Append(popped, goTo.t1[rule.lhs])
                     ELSE popped
          \* the values of the popped symbols now belong to the lhs
          lowered == [i \in 1..Len(call.owners) |->
                        IF call.owners[i] > Len(stack) THEN Len(stack)
                        ELSE call.owners[i]]
      IN
      IF self.actions[productionIndex + 1] # ""
        THEN
          LET args == splice(call.values, rule.length) IN
          [call EXCEPT !.pc = "action", !.stack = stack,
                       !.values = args.kept, !.args = args.removed,
                       !.productionIndex = productionIndex,
                       !.last = "reduce",
                       !.owners = SubSeq(lowered, 1, Len(args.kept)),
                       !.argOwners = splice(call.owners, rule.length).removed,
                       !.base = Len(popped)]
        ELSE [call EXCEPT !.stack = stack,
                          !.productionIndex = productionIndex,
                          !.last = "reduce",
                          !.owners = lowered]

\* values.push(this.actions[productionIndex].apply(scope, args))
actionReturn(self, call) ==
  [call EXCEPT !.pc = "loop",
               !.values = Append(@, apply(self.actions[call.productionIndex + 1],
                                          call.args)),
               !.last = "action",
               !.owners = Append(@, Len(call.stack))]

\* else if (tokenIndex === 0) { return values; }
accept(call) ==
  [call EXCEPT !.pc = "returned", !.ret = <<call.values>>, !.last = "accept"]

\* throw([0xA1, '"'+stream.substr(index, 40)]+'"'): the array is joined to
\* '161,"<excerpt>' before the closing quote is appended, so what is thrown
\* is that text; displayError finds no template for it and rethrows it.
choke(call) ==
  [call EXCEPT !.pc = "threw",
               !.thrown = "161,\"" \o excerpt(call.stream, call.index) \o "\"",
               !.last = "choke"]

\* One pass of the loop, or the return from an action, whichever `call` is
\* at.
pass(self, call) ==
  IF call.pc = "action" THEN actionReturn(self, call)
  ELSE
    LET token == tokenOf(self, call) IN
    IF token.kind = "shift" THEN shift(call, token)
    ELSE IF token.kind = "none" THEN choke(call)
    ELSE IF token.tokenIndex < 0 THEN reduce(self, call, token)
    ELSE accept(call)

(***************************************************************************)
(* The grammars and the input texts the model is run on.                   *)
(***************************************************************************)
\* S: [/a/]
LiteralA == [sT |-> "S", grammar |-> [S |-> <<Re(<<T("a")>>)>>]]

\* S: [/ab/]
LiteralAB == [sT |-> "S", grammar |-> [S |-> <<Re(<<T("ab")>>)>>]]

\* S: [/a <T>/, /ab/], T: [/b/]
Prefix ==
  [sT |-> "S",
   grammar |-> [S |-> <<Re(<<T("a"), N("T")>>), Re(<<T("ab")>>)>>,
                T |-> <<Re(<<T("b")>>)>>]]

\* List: [/<Item>/, /<this> <Item>/], Item: [/a/]
ListA ==
  [sT |-> "List",
   grammar |-> [List |-> <<Re(<<N("Item")>>), Re(<<N("this"), N("Item")>>)>>,
                Item |-> <<Re(<<T("a")>>)>>]]

\* List: [/<Item>/, /<this> <Item>/], Item: [/ab/]
ListAB ==
  [sT |-> "List",
   grammar |-> [List |-> <<Re(<<N("Item")>>), Re(<<N("this"), N("Item")>>)>>,
                Item |-> <<Re(<<T("ab")>>)>>]]

\* Pair: [/<A> <B>/, f], A: [/a/, g], B: [/b/]
Pair ==
  [sT |-> "Pair",
   grammar |-> [Pair |-> <<Re(<<N("A"), N("B")>>), Fn("f")>>,
                A |-> <<Re(<<T("a")>>), Fn("g")>>,
                B |-> <<Re(<<T("b")>>)>>]]

\* P: [/<Q> b/, f], Q: [/a a/]
Passing ==
  [sT |-> "P",
   grammar |-> [P |-> <<Re(<<N("Q"), T("b")>>), Fn("f")>>,
                Q |-> <<Re(<<T("a"), T("a")>>)>>]]

\* S: [/<A>/] and no A
MissingA == [sT |-> "S", grammar |-> [S |-> <<Re(<<N("A")>>)>>]]

\* {} with start symbol S
MissingStart == [sT |-> "S", grammar |-> <<>>]

\* S: [/a <B>/], B: [/<C> b/] and no C
MissingC ==
  [sT |-> "S",
   grammar |-> [S |-> <<Re(<<T("a"), N("B")>>)>>,
                B |-> <<Re(<<N("C"), T("b")>>)>>]]

\* S: [/a <a>/] and no entry named a
MissingAfterTerminal ==
  [sT |-> "S", grammar |-> [S |-> <<Re(<<T("a"), N("a")>>)>>]]

\* a: [/a/] with start symbol a
SelfNamed == [sT |-> "a", grammar |-> [a |-> <<Re(<<T("a")>>)>>]]

\* S: [/S`/]: the literal is the name of the augmented start symbol
AugNamed == [sT |-> "S", grammar |-> [S |-> <<Re(<<T(aSTOf("S"))>>)>>]]

\* List: [/<Item>/, /<this> <Item>/], Item: [/Item/]
ListItem ==
  [sT |-> "List",
   grammar |-> [List |-> <<Re(<<N("Item")>>), Re(<<N("this"), N("Item")>>)>>,
                Item |-> <<Re(<<T("Item")>>)>>]]

\* S: [/a/, /a b/]: after a, the completed configuration comes first
ReduceFirst ==
  [sT |-> "S",
   grammar |-> [S |-> <<Re(<<T("a")>>), Re(<<T("a"), T("b")>>)>>]]

\* S: [/a b/, /a/]: after a, the configuration with b after the dot comes first
ShiftFirst ==
  [sT |-> "S",
   grammar |-> [S |-> <<Re(<<T("a"), T("b")>>), Re(<<T("a")>>)>>]]

Grammars ==
  <<LiteralA, LiteralAB, Prefix, ListA, ListAB, Pair, Passing,
    MissingA, MissingStart, MissingC, MissingAfterTerminal, SelfNamed,
    AugNamed, ListItem, ReduceFirst, ShiftFirst>>

\* The grammars two interleaved calls are run on.
GrammarsConc == {gi \in 1..Len(Grammars) : Grammars[gi] \in {Pair, Passing}}

\* The grammars the constructor is followed through: S is a list of one to
\* MaxAlternatives of the entries below, A is one of three.
MaxAlternatives == 2

EntryPool ==
  {<<Re(<<T("a")>>)>>,
   <<Re(<<T("a")>>), Fn("f")>>,
   <<Re(<<T("a"), T("b")>>)>>,
   <<Re(<<N("A")>>)>>,
   <<Re(<<N("this"), T("a")>>)>>,
   <<Re(<<T("a"), N("S")>>), Fn("k")>>,
   <<Re(<<N("A"), N("S")>>)>>,
   <<Re(<<N(aSTOf("S")), T("a")>>)>>,
   <<Re(<<N("A"), T("b")>>), Fn("m")>>,
   <<Re(<<T("A"), T("b")>>)>>}

RECURSIVE EntryLists(_)
EntryLists(n) ==
  IF n = 0 THEN {<<>>}
  ELSE LET shorter == EntryLists(n - 1)
       IN shorter \cup {l \o e : l \in shorter, e \in EntryPool}

Family ==
  {[sT |-> "S", grammar |-> [S |-> s, A |-> a]] :
     s \in EntryLists(MaxAlternatives) \ {<<>>},
     a \in {<<Re(<<T("a")>>), Fn("h")>>, <<Re(<<T("b")>>)>>,
            <<Re(<<N("S"), T("b")>>)>>}}

Alphabet == {"a", "b", " "}

\* The characters of the texts of interleaved calls.
AlphabetConc == {"a", "b", " "}

RECURSIVE Texts(_, _)
Texts(alphabet, n) ==
  IF n = 0 THEN {""}
  ELSE LET shorter == Texts(alphabet, n - 1)
       IN shorter \cup {t \o c : t \in shorter, c \in alphabet}

RECURSIVE repeat(_, _)
repeat(c, n) == IF n = 0 THEN "" ELSE c \o repeat(c, n - 1)

\* Texts whose unconsumed remainder is longer than the excerpt of the error.
LongTexts ==
  {repeat("b", ExcerptLength + 2), "a" \o repeat("b", ExcerptLength + 2),
   "ab " \o repeat("b", ExcerptLength)}

\* Texts that are names of symbols of the grammars above.
NameTexts == {aSTOf("S"), "Item", "Item Item"}

Inputs == Texts(Alphabet, MaxLen) \cup LongTexts \cup NameTexts

InputsConc == Texts(AlphabetConc, MaxLenConc)

\* f with every one of its values computed once (f @@ <<>> is f).
Tabulated(f) == f @@ <<>>

\* new Grammar(grammar, sT) for each grammar of the model.
Compiled ==
  Tabulated([gi \in 1..Len(Grammars) |->
               Grammar(Grammars[gi].grammar, Grammars[gi].sT)])

(***************************************************************************)
(* The state machine.  g is the grammar the program constructed, parser    *)
(* the resulting Grammar object, calls the locals of the parse calls made  *)
(* on it.  A call slot is entered again once its call has ended, which is  *)
(* a sequence of calls on one object; with two slots the passes of two     *)
(* calls interleave, which is what a parse started from a semantic action  *)
(* of another parse does.                                                  *)
(***************************************************************************)
\* earlier[c] is how the previous call of slot c ended ("idle" when there
\* was none): history, not read by the program.  gen is the workspace of a
\* constructor that is running.
VARIABLES g, parser, calls, earlier, gen

vars == <<g, parser, calls, earlier, gen>>

InitWith(grammars, ids) ==
  /\ g \in grammars
  /\ parser = Compiled[g]
  /\ calls = [c \in ids |-> Idle]
  /\ earlier = [c \in ids |-> "idle"]
  /\ gen = NoWorkspace

Init == InitWith(1..Len(Grammars), {1})

InitConc == InitWith(GrammarsConc, {1, 2})

InputsFor(ids) == IF Cardinality(ids) = 1 THEN Inputs ELSE InputsConc

\* parser.parse(stream)
Parse(c, stream) ==
  /\ parser.constructed
  /\ calls[c].pc \in {"idle", "returned", "threw"}
  /\ calls' = [calls EXCEPT ![c] = enter(@, stream)]
  /\ earlier' = [earlier EXCEPT ![c] = calls[c].pc]
  /\ UNCHANGED <<g, parser, gen>>

\* Shift with the value stack held by the object: the value is pushed for
\* every call in progress
ShiftShared(c) ==
  /\ calls[c].pc = "loop"
  /\ tokenOf(parser, calls[c]).kind = "shift"
  /\ calls' = [d \in DOMAIN calls |->
                 IF d = c THEN shift(calls[c], tokenOf(parser, calls[c]))
                 ELSE IF calls[d].pc \in {"loop", "action"}
                   THEN [calls[d] EXCEPT
                           !.values = Append(@, tokenOf(parser, calls[c]).value)]
                 ELSE calls[d]]
  /\ UNCHANGED <<g, parser, earlier, gen>>

Shift(c) ==
  /\ calls[c].pc = "loop"
  /\ tokenOf(parser, calls[c]).kind = "shift"
  /\ calls' = [calls EXCEPT ![c] = shift(@, tokenOf(parser, @))]
  /\ UNCHANGED <<g, parser, earlier, gen>>

Reduce(c) ==
  /\ calls[c].pc = "loop"
  /\ tokenOf(parser, calls[c]).kind = "reduction"
  /\ tokenOf(parser, calls[c]).tokenIndex < 0
  /\ calls' = [calls EXCEPT ![c] = reduce(parser, @, tokenOf(parser, @))]
  /\ UNCHANGED <<g, parser, earlier, gen>>

ActionReturn(c) ==
  /\ calls[c].pc = "action"
  /\ calls' = [calls EXCEPT ![c] = actionReturn(parser, @)]
  /\ UNCHANGED <<g, parser, earlier, gen>>

Accept(c) ==
  /\ calls[c].pc = "loop"
  /\ tokenOf(parser, calls[c]).kind = "reduction"
  /\ tokenOf(parser, calls[c]).tokenIndex = 0
  /\ calls' = [calls EXCEPT ![c] = accept(@)]
  /\ UNCHANGED <<g, parser, earlier, gen>>

Choke(c) ==
  /\ calls[c].pc = "loop"
  /\ tokenOf(parser, calls[c]).kind = "none"
  /\ calls' = [calls EXCEPT ![c] = choke(@)]
  /\ UNCHANGED <<g, parser, earlier, gen>>

Next ==
  \/ \E c \in DOMAIN calls :
       \E stream \in InputsFor(DOMAIN calls) : Parse(c, stream)
  \/ \E c \in DOMAIN calls : Shift(c)
  \/ \E c \in DOMAIN calls : Reduce(c)
  \/ \E c \in DOMAIN calls : ActionReturn(c)
  \/ \E c \in DOMAIN calls : Accept(c)
  \/ \E c \in DOMAIN calls : Choke(c)

Spec == Init /\ [][Next]_vars

SpecConc == InitConc /\ [][Next]_vars

(***************************************************************************)
(* new Grammar(grammar, sT) followed step by step, for each grammar of the *)
(* family: the object exists once the table is built.                      *)
(***************************************************************************)
InitGen ==
  /\ g = 0
  /\ parser = NoObject
  /\ calls = <<>>
  /\ earlier = <<>>
  /\ gen \in {Unstarted(input) : input \in Family}

\* lines 262 to 338
Begin ==
  /\ gen.phase = "new"
  /\ gen' = begin(gen)
  /\ UNCHANGED <<g, parser, calls, earlier>>

\* one pass of the body of the h loop, lines 359 to 367
Visit ==
  /\ gen.phase = "generate"
  /\ gen.i <= Len(gen.configSets)
  /\ gen' = visit(gen)
  /\ UNCHANGED <<g, parser, calls, earlier>>

\* lines 377 to 436, and the return of the constructor
Table ==
  /\ gen.phase = "generate"
  /\ gen.i > Len(gen.configSets)
  /\ gen' = [gen EXCEPT !.phase = "done"]
  /\ parser' = finish(gen)
  /\ UNCHANGED <<g, calls, earlier>>

NextGen == Begin \/ Visit \/ Table

SpecGen == InitGen /\ [][NextGen]_vars

(***************************************************************************)
(* A call run alone on a newly constructed object, for comparison.         *)
(***************************************************************************)
\* more passes than any call of the model takes
RunFuel == 64

ended(call) == call.pc \in {"returned", "threw"}

RECURSIVE run(_, _, _)
run(obj, call, fuel) ==
  IF fuel = 0 \/ ended(call) THEN call
  ELSE run(obj, pass(obj, call), fuel - 1)

\* every state of the locals the call passes through
RECURSIVE trail(_, _, _)
trail(obj, call, fuel) ==
  IF fuel = 0 \/ ended(call) THEN {call}
  ELSE {call} \cup trail(obj, pass(obj, call), fuel - 1)

\* Alone[gi][s]: the end of parse(s) as the first call on a new object.
Alone ==
  Tabulated([gi \in 1..Len(Grammars) |->
    Tabulated([s \in Inputs \cup InputsConc |->
                 IF Compiled[gi].constructed
                   THEN run(Compiled[gi], enter(Idle, s), RunFuel)
                   ELSE Idle])])

\* AloneTrail[gi][s]: the states of parse(s) run alone, for the grammars
\* and texts of interleaved calls.
AloneTrail ==
  Tabulated([gi \in GrammarsConc |->
    Tabulated([s \in InputsConc |->
                 trail(Compiled[gi], enter(Idle, s), RunFuel)])])

outcome(call) == [pc |-> call.pc, ret |-> call.ret, thrown |-> call.thrown]

(***************************************************************************)
(* Vocabulary of the properties.                                           *)
(***************************************************************************)
\* text occurs in stream at scan position index
At(stream, index, text) ==
  /\ index + Len(text) <= Len(stream)
  /\ \A i \in 1..Len(text) :
       SubSeq(stream, index + i, index + i) = SubSeq(text, i, i)

\* the terminal table of the state on top of the call's state stack
Row(call) == parser.table[call.stack[Len(call.stack)] + 1].t0

\* the pattern source of terminal k
Source(k) == parser.tokens[k + 1].value

\* the terminals with a shift entry in the row that match at the position
Matching(call) ==
  {k \in DOMAIN Row(call) :
     Row(call)[k] > 0 /\ At(call.stream, call.index, Source(k))}

\* call c makes a pass of its loop in this step
Pass(c) == calls[c].pc = "loop" /\ calls'[c] # calls[c]

Ended(c) == calls[c].pc \in {"returned", "threw"}

\* the production reduced last by the call
Rule(call) == parser.productions[call.productionIndex + 1]

(***************************************************************************)
(* C1.  In a pass where two or more terminals with a shift entry in the    *)
(* current row match at the scan position and one of them matches a        *)
(* strictly longer text than every other, the pass shifts on that one: its *)
(* text is pushed on the value stack, its target state on the state stack, *)
(* and the position moves past it.                                         *)
(***************************************************************************)
C1_LongestShiftWins ==
  [][\A c \in DOMAIN calls :
       Pass(c) =>
         \A k \in Matching(calls[c]) :
           (/\ Cardinality(Matching(calls[c])) >= 2
            /\ \A o \in Matching(calls[c]) \ {k} :
                 Len(Source(o)) < Len(Source(k)))
           => /\ calls'[c].last = "shift"
              /\ calls'[c].values = Append(calls[c].values, Source(k))
              /\ calls'[c].stack = Append(calls[c].stack, Row(calls[c])[k])
              /\ calls'[c].index >= calls[c].index + Len(Source(k))]_vars

\* "ab" was shifted from state 0 of S: [/a <T>/, /ab/], where /a/ matched too
C1_Witness ==
  \E c \in DOMAIN calls :
    /\ Grammars[g] = Prefix
    /\ calls[c].last = "shift"
    /\ calls[c].values = <<"ab">>
    /\ calls[c].index = 2

(***************************************************************************)
(* C2.  Whatever calls were made before on the object, a call that has     *)
(* ended has the outcome the same call has as the first call on a newly    *)
(* constructed object; a call starts with state stack [0], no values and   *)
(* position 0; and the object is as the constructor left it.               *)
(***************************************************************************)
C2_CallsAreIndependent ==
  /\ parser = Compiled[g]
  /\ \A c \in DOMAIN calls :
       /\ Ended(c) => outcome(calls[c]) = outcome(Alone[g][calls[c].stream])
       /\ calls[c].last = "enter" =>
            /\ calls[c].stack = <<0>>
            /\ calls[c].values = <<>>
            /\ calls[c].index = 0

\* a call returned values on an object whose previous call returned values
\* too, and one whose previous call failed
C2_Witness ==
  \E c \in DOMAIN calls :
    /\ calls[c].pc = "returned"
    /\ earlier[c] = "returned"
    /\ Len(calls[c].ret[1]) = 1

(***************************************************************************)
(* C3.  (as amended)  For a grammar of one non-terminal whose only         *)
(* alternative is one literal terminal, parse returns exactly on the texts *)
(* made of the literal followed by zero or more spaces, and fails on every *)
(* other text; when the literal is the text of the non-terminal's name or  *)
(* of the augmented start symbol's name, parse fails on every text.        *)
(***************************************************************************)
SingleLiteral(G) ==
  /\ DOMAIN G.grammar = {G.sT}
  /\ Len(G.grammar[G.sT]) = 1
  /\ G.grammar[G.sT][1].fn = ""
  /\ Len(G.grammar[G.sT][1].toks) = 1
  /\ ~G.grammar[G.sT][1].toks[1].nt

\* the literal is the text of a name in the symbol table
NamesASymbol(G) ==
  G.grammar[G.sT][1].toks[1].text \in {G.sT, aSTOf(G.sT)}

LiteralOf(G) == G.grammar[G.sT][1].toks[1].text

LiteralThenSpaces(stream, literal) ==
  /\ At(stream, 0, literal)
  /\ \A i \in (Len(literal) + 1)..Len(stream) : SubSeq(stream, i, i) = " "

C3_LiteralThenSpaces ==
  \A c \in DOMAIN calls :
    (SingleLiteral(Grammars[g]) /\ Ended(c)) =>
      IF NamesASymbol(Grammars[g])
        THEN calls[c].pc = "threw"
        ELSE (calls[c].pc = "returned"
                <=> LiteralThenSpaces(calls[c].stream, LiteralOf(Grammars[g])))

\* the literal followed by spaces was accepted
C3_Witness ==
  \E c \in DOMAIN calls :
    /\ SingleLiteral(Grammars[g])
    /\ calls[c].pc = "returned"
    /\ Len(calls[c].stream) > Len(LiteralOf(Grammars[g]))

\* C3 as claimed: exactly the text equal to the literal is accepted.
C3_Claimed ==
  \A c \in DOMAIN calls :
    (SingleLiteral(Grammars[g]) /\ Ended(c)) =>
      (calls[c].pc = "returned"
         <=> calls[c].stream = LiteralOf(Grammars[g]))

(***************************************************************************)
(* C4.  (as amended)  A pass that finds no shift terminal matching, no     *)
(* reduce entry, and no accept entry with the input used up, ends the call *)
(* with an error and no returned values; the error is the text 161,"e"     *)
(* where e is the unconsumed input from the scan position on, cut to 40    *)
(* characters.  The position itself is not part of the error.              *)
(***************************************************************************)
NothingApplies(call) ==
  /\ Matching(call) = {}
  /\ Dollar \in DOMAIN Row(call) =>
       Row(call)[Dollar] = 0 /\ call.index # Len(call.stream)

Remainder(call) == Len(call.stream) - call.index

ListShaped(G) ==
  /\ DOMAIN G.grammar = {G.sT, "Item"}
  /\ G.sT # "Item"
  /\ G.grammar[G.sT] = <<Re(<<N("Item")>>), Re(<<N("this"), N("Item")>>)>>
  /\ Len(G.grammar["Item"]) = 1
  /\ G.grammar["Item"][1].fn = ""
  /\ Len(G.grammar["Item"][1].toks) = 1
  /\ ~G.grammar["Item"][1].toks[1].nt

ItemOf(G) == G.grammar["Item"][1].toks[1].text

Repetition(stream, item) ==
  \E n \in 1..Len(stream) :
    /\ Len(stream) = n * Len(item)
    /\ \A i \in 0..(n - 1) : At(stream, i * Len(item), item)

C5_Claimed ==
  ListShaped(Grammars[g]) =>
    /\ parser.constructed
    /\ \A i \in 1..Len(parser.tokens) : parser.tokens[i].value # "this"
    /\ \E p \in 1..Len(parser.productions) :
         /\ parser.productions[p].length = 2
         /\ parser.tokens[parser.productions[p].lhs + 1].value = Grammars[g].sT
    /\ \A c \in DOMAIN calls :
         Ended(c) =>
           /\ Repetition(calls[c].stream, ItemOf(Grammars[g])) =>
                calls[c].pc = "returned"
           /\ calls[c].stream = "" => calls[c].pc = "threw"

(***************************************************************************)
(* C6.  A shift pushes exactly the text matched at the scan position and   *)
(* leaves the position after that text and after the whole run of spaces   *)
(* that follows it; a reduce, and the return of its action, leave the      *)
(* position where it was.                                                  *)
(***************************************************************************)
C6_ShiftSkipsSpaces ==
  [][\A c \in DOMAIN calls :
       /\ (Pass(c) /\ calls'[c].last = "shift") =>
            \E m \in 0..Remainder(calls[c]) :
              LET from == calls[c].index
                  to == calls'[c].index
              IN /\ calls'[c].values =
                      Append(calls[c].values,
                             SubSeq(calls[c].stream, from + 1, from + m))
                 /\ to >= from + m
                 /\ to <= Len(calls[c].stream)
                 /\ \A i \in (from + m + 1)..to :
                      SubSeq(calls[c].stream, i, i) = " "
                 /\ to < Len(calls[c].stream) =>
                      SubSeq(calls[c].stream, to + 1, to + 1) # " "
       /\ (calls[c].pc \in {"loop", "action"}
           /\ calls'[c].last \in {"reduce", "action"}) =>
            calls'[c].index = calls[c].index]_vars

\* a shift skipped a run of two spaces
C6_Witness ==
  \E c \in DOMAIN calls :
    /\ calls[c].last = "shift"
    /\ calls[c].index >= 3
    /\ SubSeq(calls[c].stream, calls[c].index - 1, calls[c].index) = "  "
    /\ \A i \in 1..Len(calls[c].values) :
         \A j \in 1..Len(calls[c].values[i]) :
           SubSeq(calls[c].values[i], j, j) # " "

(***************************************************************************)
(* C7.  (as claimed; the code does not satisfy it)  When the action of a   *)
(* production with k rhs symbols is called, it has k arguments, they are   *)
(* the values of the k rhs symbols in order, one value for each symbol,    *)
(* and no value of those symbols stays on the value stack.                 *)
(***************************************************************************)
C7_Claimed ==
  \A c \in DOMAIN calls :
    calls[c].pc = "action" =>
      LET k == Rule(calls[c]).length IN
      /\ Len(calls[c].args) = k
      /\ calls[c].argOwners = [i \in 1..k |-> calls[c].base + i]
      /\ \A i \in 1..Len(calls[c].owners) :
           calls[c].owners[i] <= calls[c].base

(***************************************************************************)
(* C8.  (as claimed; the code does not satisfy it)  When the start symbol  *)
(* or a name referenced in brackets (this standing for the enclosing       *)
(* non-terminal) from an alternative reachable from the start symbol has   *)
(* no entry in the grammar, construction fails with the message of error   *)
(* 0x10 naming a missing name, and there is no Grammar object.             *)
(***************************************************************************)
\* the names an entry's alternatives reference
References(G, name) ==
  {resolve(G.grammar[name][i].toks[j], name) :
     <<i, j>> \in {ij \in (1..Len(G.grammar[name])) \X (1..4) :
                     /\ ij[2] <= Len(G.grammar[name][ij[1]].toks)
                     /\ G.grammar[name][ij[1]].toks[ij[2]].nt}}

RECURSIVE Reach(_, _)
Reach(G, names) ==
  LET more == names \cup UNION {References(G, n) :
                                  n \in names \cap DOMAIN G.grammar}
  IN IF more = names THEN names ELSE Reach(G, more)

MissingNames(G) == Reach(G, {G.sT}) \ DOMAIN G.grammar

C8_Claimed ==
  MissingNames(Grammars[g]) # {} =>
    /\ ~parser.constructed
    /\ \E n \in MissingNames(Grammars[g]) :
         parser.thrown = "The non-terminal \"" \o n
                         \o "\" is not defined in the grammar."

(***************************************************************************)
(* C9.  While two calls on one object interleave pass by pass, also with   *)
(* one of them inside a semantic action, the locals of each call are at    *)
(* every moment a state the same call passes through when run alone on a   *)
(* new object, each ends as it does alone, and the object is unchanged.    *)
(***************************************************************************)
C9_InterleavedCallsAreAlone ==
  /\ parser = Compiled[g]
  /\ \A c \in DOMAIN calls :
       calls[c].pc # "idle" =>
         /\ calls[c] \in AloneTrail[g][calls[c].stream]
         /\ Ended(c) => calls[c] = Alone[g][calls[c].stream]

\* one call is inside a semantic action while the other, entered on a
\* different text, is in the middle of its own parse
C9_Witness ==
  /\ DOMAIN calls = {1, 2}
  /\ calls[1].pc = "action"
  /\ calls[2].pc = "loop"
  /\ Len(calls[2].stack) > 1
  /\ calls[1].stream # calls[2].stream

(***************************************************************************)
(* C10.  (as amended)  A reduce by a production p without an action pops   *)
(* exactly len(p.rhs) entries from the state stack, pushes the goto state, *)
(* and leaves the value stack as it was: the values of the rhs stay.       *)
(***************************************************************************)
\* the pass of c is a reduce by a production without an action
PlainReduce(c) ==
  /\ Pass(c)
  /\ calls'[c].last = "reduce"
  /\ calls'[c].pc = "loop"

C10_PlainReduceKeepsValues ==
  [][\A c \in DOMAIN calls :
       PlainReduce(c) =>
         LET k == Rule(calls'[c]).length IN
         /\ parser.actions[calls'[c].productionIndex + 1] = ""
         /\ Len(calls'[c].stack) = Len(calls[c].stack) - k + 1
         /\ SubSeq(calls'[c].stack, 1, Len(calls[c].stack) - k)
              = SubSeq(calls[c].stack, 1, Len(calls[c].stack) - k)
         /\ calls'[c].values = calls[c].values]_vars

\* a production of two symbols without an action was reduced with both of
\* its values on the value stack
C10_Witness ==
  \E c \in DOMAIN calls :
    /\ calls[c].last = "reduce"
    /\ calls[c].pc = "loop"
    /\ Rule(calls[c]).length = 2
    /\ Len(calls[c].values) = 2

\* C10 as claimed: the reduce pops len(p.rhs) values too and pushes none.
C10_Claimed ==
  [][\A c \in DOMAIN calls :
       PlainReduce(c) =>
         LET k == Rule(calls'[c]).length IN
         /\ Len(calls'[c].stack) = Len(calls[c].stack) - k + 1
         /\ calls'[c].values
              = SubSeq(calls[c].values, 1, Len(calls[c].values) - k)]_vars

(***************************************************************************)
(* C11.  (as claimed; the code does not satisfy it)  Between the passes of *)
(* a call, and when it has returned, the value stack holds one entry for   *)
(* each entry of the state stack above the initial state 0.                *)
(***************************************************************************)
C11_Claimed ==
  \A c \in DOMAIN calls :
    calls[c].pc \in {"loop", "returned"} =>
      Len(calls[c].values) = Len(calls[c].stack) - 1

(***************************************************************************)
(* C12.  In a pass where a terminal with a shift entry in the current row  *)
(* matches at the scan position, the pass shifts, also when the row holds  *)
(* a reduce or accept entry; a pass reduces or accepts only when no shift  *)
(* terminal of the row matches.                                            *)
(***************************************************************************)
C12_ShiftBeforeReduce ==
  [][\A c \in DOMAIN calls :
       Pass(c) =>
         /\ Matching(calls[c]) # {} => calls'[c].last = "shift"
         /\ calls'[c].last \in {"reduce", "accept"} =>
              Matching(calls[c]) = {}]_vars

\* the state below the top of the state stack: the one the last shift left
Below(call) == parser.table[call.stack[Len(call.stack) - 1] + 1].t0

\* a shift was made from a row that holds a reduce entry
C12_Witness ==
  \E c \in DOMAIN calls :
    /\ calls[c].last = "shift"
    /\ Dollar \in DOMAIN Below(calls[c])
    /\ Below(calls[c])[Dollar] < 0

(***************************************************************************)
(* C13.  A call returns only from a pass in which the current row holds    *)
(* the accept entry (0 under the end marker) and the scan position is the  *)
(* length of the input, and what it returns is the value stack of that     *)
(* pass; a pass in a row with the accept entry, with input left and no     *)
(* shift terminal matching, ends the call with an error.                   *)
(***************************************************************************)
AcceptRow(call) == Dollar \in DOMAIN Row(call) /\ Row(call)[Dollar] = 0

C13_ReturnsOnlyOnAccept ==
  [][\A c \in DOMAIN calls :
       /\ (calls[c].pc # "returned" /\ calls'[c].pc = "returned") =>
            /\ Pass(c)
            /\ AcceptRow(calls[c])
            /\ calls[c].index = Len(calls[c].stream)
            /\ calls'[c].ret = <<calls[c].values>>
       /\ (/\ Pass(c)
           /\ AcceptRow(calls[c])
           /\ calls[c].index < Len(calls[c].stream)
           /\ Matching(calls[c]) = {}) =>
            /\ calls'[c].pc = "threw"
            /\ calls'[c].ret = <<>>]_vars

\* a call reached the row of the accept entry with input left and failed
C13_Witness ==
  \E c \in DOMAIN calls :
    /\ calls[c].last = "choke"
    /\ AcceptRow(calls[c])
    /\ calls[c].index > 0
    /\ calls[c].index < Len(calls[c].stream)

(***************************************************************************)
(* C15.  (as amended)  A shift/reduce conflict inside one state is not     *)
(* resolved when the table is built: whichever of the conflicting          *)
(* configurations comes first, the row keeps the reduce under the end      *)
(* marker and each shift under its terminal, and a pass in that state      *)
(* shifts when a shift terminal matches at the scan position and reduces   *)
(* when none does.                                                         *)
(***************************************************************************)
\* the configuration set of state number s
ConfigSetOf(s) == parser.configSets[s + 1]

Completed(config) == config.index = Len(config.rhs)

\* a terminal follows the dot
BeforeTerminal(config) ==
  ~Completed(config) /\ parser.tokens[AfterDot(config) + 1].terminal

\* a completed configuration of a production other than the augmented one
Reducible(config) ==
  Completed(config) /\ parser.tokens[config.lhs + 1].value # parser.aST

\* the position of the first configuration of the set that satisfies P
First(set, P(_)) ==
  IF \E i \in 1..Len(set) : P(set[i])
    THEN CHOOSE i \in 1..Len(set) : P(set[i]) /\ \A j \in 1..(i - 1) : ~P(set[j])
    ELSE 0

\* state s holds a shift/reduce conflict: its first completed configuration
\* is one to reduce by, and a terminal follows the dot of another
Conflict(s) ==
  /\ First(ConfigSetOf(s), Completed) > 0
  /\ Reducible(ConfigSetOf(s)[First(ConfigSetOf(s), Completed)])
  /\ First(ConfigSetOf(s), BeforeTerminal) > 0

ReduceComesFirst(s) ==
  First(ConfigSetOf(s), Completed) < First(ConfigSetOf(s), BeforeTerminal)

Top(call) == call.stack[Len(call.stack)]

C15_ConflictKeepsBoth ==
  [][\A c \in DOMAIN calls :
       (Pass(c) /\ Conflict(Top(calls[c]))) =>
         /\ Dollar \in DOMAIN Row(calls[c])
         /\ Row(calls[c])[Dollar] < 0
         /\ \A i \in 1..Len(ConfigSetOf(Top(calls[c]))) :
              BeforeTerminal(ConfigSetOf(Top(calls[c]))[i]) =>
                /\ AfterDot(ConfigSetOf(Top(calls[c]))[i]) \in DOMAIN Row(calls[c])
                /\ Row(calls[c])[AfterDot(ConfigSetOf(Top(calls[c]))[i])] > 0
         /\ Matching(calls[c]) # {} => calls'[c].last = "shift"
         /\ Matching(calls[c]) = {} => calls'[c].last = "reduce"]_vars

\* a shift was made in a state whose completed configuration comes first
C15_Witness ==
  \E c \in DOMAIN calls :
    /\ calls[c].last = "shift"
    /\ Len(calls[c].stack) > 1
    /\ Conflict(calls[c].stack[Len(calls[c].stack) - 1])
    /\ ReduceComesFirst(calls[c].stack[Len(calls[c].stack) - 1])

\* C15 as claimed: the configuration that comes first decides what the
\* parser does in the state.
C15_Claimed ==
  [][\A c \in DOMAIN calls :
       (Pass(c) /\ Conflict(Top(calls[c]))) =>
         IF ReduceComesFirst(Top(calls[c]))
           THEN calls'[c].last = "reduce"
           ELSE calls'[c].last = "shift"]_vars

(***************************************************************************)
(* Vocabulary of the properties of the constructor.  States are numbered   *)
(* from 0 as in the source.                                                *)
(***************************************************************************)
Built == gen.phase = "done"

States == 0..(Len(parser.configSets) - 1)

\* the (table, token, action) that configuration j of state s produces
Entry(s, j) ==
  tableEntry(gen.remapped, setsOf(gen), gen.input.sT,
             ConfigSetOf(s), ConfigSetOf(s)[j])

\* row[table] of state s
Slot(s, table) ==
  IF table = 0 THEN parser.table[s + 1].t0 ELSE parser.table[s + 1].t1

\* the first configuration of state s that produces the key of configuration j
FirstWriter(s, j) ==
  CHOOSE f \in 1..j :
    /\ Entry(s, f).table = Entry(s, j).table
    /\ Entry(s, f).token = Entry(s, j).token
    /\ \A e \in 1..(f - 1) :
         ~(/\ Entry(s, e).table = Entry(s, j).table
           /\ Entry(s, e).token = Entry(s, j).token)

(***************************************************************************)
(* C14.  In the table the constructor built, every key (table slot,        *)
(* symbol) that a configuration of a state produces holds the action of    *)
(* the first configuration, in the state's order, that produces the key,   *)
(* and a row holds no other key; so under the end marker a state with      *)
(* several completed configurations holds the reduce or accept of the      *)
(* first.                                                                  *)
(***************************************************************************)
C14_FirstWriterWins ==
  Built =>
    \A s \in States :
      /\ \A j \in 1..Len(ConfigSetOf(s)) :
           /\ Entry(s, j).token \in DOMAIN Slot(s, Entry(s, j).table)
           /\ Slot(s, Entry(s, j).table)[Entry(s, j).token]
                = Entry(s, FirstWriter(s, j)).action
      /\ \A table \in {0, 1} :
           \A token \in DOMAIN Slot(s, table) :
             \E j \in 1..Len(ConfigSetOf(s)) :
               Entry(s, j).table = table /\ Entry(s, j).token = token

\* a state holds two completed configurations that reduce by different
\* productions
C14_Witness ==
  /\ Built
  /\ \E s \in States :
       \E j \in 1..Len(ConfigSetOf(s)) :
         /\ FirstWriter(s, j) # j
         /\ Entry(s, j).action # Entry(s, FirstWriter(s, j)).action

\* the states the generation has registered so far, as serializations
Registered(ws) == setsOf(ws).configSets

\* the successor the h loop computes at the place the generation has come to
Pending(ws) ==
  successor(ws.remapped.augmentedGrammar, Registered(ws)[ws.i],
            symbolsAt(ws)[ws.k])

(***************************************************************************)
(* C16.  While and after the automaton is generated no two states of the   *)
(* state list have the same serialization, state 0 included, and no state  *)
(* is empty; and a step of the generation appends the successor it         *)
(* computed as a new state exactly when the successor is not empty and no  *)
(* state of the list, state 0 included, has its serialization: otherwise   *)
(* the list is left as it is.                                              *)
(***************************************************************************)
C16_StatesAreDistinct ==
  [][gen'.phase \in {"generate", "done"} =>
       /\ \A s \in 1..Len(Registered(gen')) :
            /\ Len(Registered(gen')[s]) > 0
            /\ \A r \in 1..(s - 1) :
                 Registered(gen')[r] # Registered(gen')[s]
       /\ (gen.phase = "generate" /\ gen'.phase = "generate") =>
            IF /\ Len(Pending(gen)) > 0
               /\ \A s \in 1..Len(Registered(gen)) :
                    Registered(gen)[s] # Pending(gen)
              THEN Registered(gen') = Append(Registered(gen), Pending(gen))
              ELSE Registered(gen') = Registered(gen)
       /\ gen'.phase = "done" => Registered(gen') = Registered(gen)]_vars

\* a successor that is not empty was found among the states registered
\* before the last one, and merged
C16_Witness ==
  /\ gen.phase = "generate"
  /\ Len(gen.next) > 0
  /\ \E s \in 1..(Len(Registered(gen)) - 1) : Registered(gen)[s] = gen.next

\* the shift and goto keys of state s: every key but the end marker
Moves(s) ==
  {[table |-> 0, token |-> X] : X \in DOMAIN Slot(s, 0) \ {Dollar}}
    \cup {[table |-> 1, token |-> X] : X \in DOMAIN Slot(s, 1)}

\* successor(s, X) of the built automaton
SuccessorOf(s, X) ==
  successor(gen.remapped.augmentedGrammar, ConfigSetOf(s), X)

(***************************************************************************)
(* C17.  In the table the constructor built, every shift or goto action n  *)
(* of a state s on a symbol X is at least 1 and less than the number of    *)
(* states, and state n is successor(s, X); and the successor of every      *)
(* configuration of a state with a symbol after the dot is a state other   *)
(* than state 0.                                                           *)
(***************************************************************************)
C17_MovesLeadToSuccessors ==
  Built =>
    \A s \in States :
      /\ \A m \in Moves(s) :
           LET n == Slot(s, m.table)[m.token]
           IN /\ 1 <= n
              /\ n < Len(parser.configSets)
              /\ ConfigSetOf(n) = SuccessorOf(s, m.token)
      /\ \A j \in 1..Len(ConfigSetOf(s)) :
           ~Completed(ConfigSetOf(s)[j]) =>
             \E n \in States \ {0} :
               ConfigSetOf(n) = SuccessorOf(s, AfterDot(ConfigSetOf(s)[j]))

\* the table holds a shift and a goto, and a move from a state to itself
C17_Witness ==
  /\ Built
  /\ \E s \in States : Slot(s, 0) # <<>> /\ DOMAIN Slot(s, 0) # {Dollar}
  /\ \E s \in States : \E X \in DOMAIN Slot(s, 1) : Slot(s, 1)[X] > 1
  /\ \E s \in States : \E m \in Moves(s) : Slot(s, m.table)[m.token] = s

\* the non-terminals of the remapped grammar, as token indices
LeftHandSides == DOMAIN gen.remapped.augmentedGrammar

\* configuration [lhs -> . rhs] is in the set
Holds(set, lhs, rhs) ==
  \E n \in 1..Len(set) : set[n] = [lhs |-> lhs, rhs |-> rhs, index |-> 0]

\* every alternative of every non-terminal after a dot is in the set
Closed(set) ==
  \A n \in 1..Len(set) :
    AfterDot(set[n]) \in LeftHandSides =>
      \A a \in 1..Len(gen.remapped.augmentedGrammar[AfterDot(set[n])]) :
        Holds(set, AfterDot(set[n]),
              gen.remapped.augmentedGrammar[AfterDot(set[n])][a])

\* no configuration is in the set twice
Duplicated(set) ==
  \E m, n \in 1..Len(set) : m < n /\ set[m] = set[n]

(***************************************************************************)
(* C18 as claimed.  Every configuration set of the automaton, while and    *)
(* after it is generated, holds every alternative of every non-terminal    *)
(* that follows a dot in it, with the dot at 0, and holds no configuration *)
(* twice.                                                                  *)
(***************************************************************************)
C18_Claimed ==
  gen.phase \in {"generate", "done"} =>
    \A s \in 1..Len(Registered(gen)) :
      Closed(Registered(gen)[s]) /\ ~Duplicated(Registered(gen)[s])

\* the configurations of set C with symbol X after the dot, in C's order,
\* each with the dot moved over X
Advanced(C, X) ==
  LET moving == SelectSeq(C, LAMBDA config : AfterDot(config) = X)
  IN [n \in 1..Len(moving) |-> [moving[n] EXCEPT !.index = @ + 1]]

\* a step of the generation: one call of successor from the h loop
Visiting == gen.phase = "generate" /\ gen'.phase = "generate"

(***************************************************************************)
(* C19.  A call successor(C, X) of the generation returns the closure of   *)
(* the configurations of C that have X after the dot, in C's order and     *)
(* each with the dot moved by one, or the empty list when there is none;   *)
(* it leaves every configuration object there was, and the membership of   *)
(* every registered state, as they were; and after it every registered     *)
(* state still serializes to the text recorded for it.                     *)
(***************************************************************************)
C19_SuccessorLeavesItsArgument ==
  [][Visiting =>
       LET C == Registered(gen)[gen.i]
           X == symbolsAt(gen)[gen.k]
       IN /\ gen'.next =
               IF Advanced(C, X) = <<>> THEN <<>>
               ELSE closure(gen.remapped.augmentedGrammar, Advanced(C, X))
          /\ \A cell \in 1..Len(gen.heap) : gen'.heap[cell] = gen.heap[cell]
          /\ \A s \in 1..Len(gen.configSets) :
               gen'.configSets[s] = gen.configSets[s]
          /\ \A n \in 1..Len(gen'.condensedConfigSets) :
               Registered(gen')[n + 1] = gen'.condensedConfigSets[n]]_vars

\* a successor of a registered state other than state 0 was computed and
\* is not empty, and some configuration of the state did not move
C19_Witness ==
  /\ gen.phase = "generate"
  /\ gen.from > 1
  /\ Len(gen.next) > 0
  /\ \E n \in 1..Len(Registered(gen)[gen.from]) :
       AfterDot(Registered(gen)[gen.from][n]) # gen.symbol

\* the index in the token list of the symbol spelt text
SymbolIndex(text) ==
  (CHOOSE i \in 1..Len(parser.tokens) : parser.tokens[i].value = text) - 1

\* the right-hand side the alternative declares for non-terminal name, as
\* token indices; <this> is the non-terminal itself
DeclaredRhs(name, alternative) ==
  [n \in 1..Len(alternative.toks) |->
     SymbolIndex(IF alternative.toks[n].nt /\ alternative.toks[n].text = "this"
                   THEN name ELSE alternative.toks[n].text)]

\* the action declared for the alternative at entry i of the list: the
\* function that follows it, if one does
DeclaredAction(entries, i) ==
  IF i + 1 <= Len(entries) /\ entries[i + 1].fn # ""
    THEN entries[i + 1].fn ELSE ""

\* the first completed configuration of state s, the one whose action the
\* end-marker slot keeps
Winner(s) ==
  ConfigSetOf(s)[First(ConfigSetOf(s), Completed)]

(***************************************************************************)
(* C20.  In the table the constructor built, for the first completed       *)
(* configuration of every state that has one: if its left-hand side is     *)
(* the augmented start symbol the end-marker slot holds 0; otherwise it    *)
(* holds -(p + 1) for an index p of the production list, productions[p]    *)
(* has the configuration's left-hand side and the length of its            *)
(* right-hand side, and the grammar given declares for that left-hand      *)
(* side an alternative with that right-hand side whose action, or absence  *)
(* of action, is actions[p].                                               *)
(***************************************************************************)
C20_ReduceNamesItsProduction ==
  Built =>
    \A s \in States :
      (\E j \in 1..Len(ConfigSetOf(s)) : Completed(ConfigSetOf(s)[j])) =>
        LET config == Winner(s)
            name == parser.tokens[config.lhs + 1].value
            action == Slot(s, 0)[Dollar]
            p == (-action) - 1
        IN IF name = parser.aST THEN action = 0
           ELSE /\ action < 0
                /\ p < Len(parser.productions)
                /\ parser.productions[p + 1].lhs = config.lhs
                /\ parser.productions[p + 1].length = Len(config.rhs)
                /\ name \in DOMAIN gen.input.grammar
                /\ \E i \in 1..Len(gen.input.grammar[name]) :
                     /\ gen.input.grammar[name][i].fn = ""
                     /\ DeclaredRhs(name, gen.input.grammar[name][i])
                          = config.rhs
                     /\ DeclaredAction(gen.input.grammar[name], i)
                          = parser.actions[p + 1]

\* the table holds an accept, a reduce by a production with an action and
\* a reduce by a production without one that is not the first of the list
C20_Witness ==
  /\ Built
  /\ \E s \in States :
       Dollar \in DOMAIN Slot(s, 0) /\ Slot(s, 0)[Dollar] = 0
  /\ \E s \in States :
       /\ Dollar \in DOMAIN Slot(s, 0)
       /\ Slot(s, 0)[Dollar] < 0
       /\ parser.actions[-Slot(s, 0)[Dollar]] # ""
  /\ \E s \in States :
       /\ Dollar \in DOMAIN Slot(s, 0)
       /\ Slot(s, 0)[Dollar] < -1
       /\ parser.actions[-Slot(s, 0)[Dollar]] = ""

\* the production the pass that starts in `call` reduces by
Reducing(call) ==
  parser.productions[(tokenOf(parser, call).tokenIndex + 1) * (-1) + 1]

\* call c reduces in this step
Reduces(c) ==
  /\ Pass(c)
  /\ tokenOf(parser, calls[c]).kind = "reduction"
  /\ tokenOf(parser, calls[c]).tokenIndex < 0

\* the state stack of the call with the states of the right-hand side of
\* rule taken off
Exposed(call, rule) ==
  SubSeq(call.stack, 1, Len(call.stack) - rule.length)

(***************************************************************************)
(* C21.  After every step of a parse call the state stack is not empty and *)
(* has state 0 at the bottom; and at every reduce, by a production p, the   *)
(* stack is higher than the right-hand side of p is long, the goto table   *)
(* of the state that the pop exposes holds a state for p.lhs, and the      *)
(* reduce leaves the stack as the popped one with that state pushed.       *)
(***************************************************************************)
C21_ReducePushesOneState ==
  [][\A c \in DOMAIN calls :
       /\ calls'[c].pc # "idle" =>
            /\ Len(calls'[c].stack) > 0
            /\ calls'[c].stack[1] = 0
       /\ Reduces(c) =>
            LET rule == Reducing(calls[c])
                below == Exposed(calls[c], rule)
                goTo == parser.table[getCurrentState(below) + 1].t1
            IN /\ Len(calls[c].stack) > rule.length
               /\ rule.lhs \in DOMAIN goTo
               /\ goTo[rule.lhs] >= 1
               /\ calls'[c].stack = Append(below, goTo[rule.lhs])]_vars

\* a reduce by a production of two symbols or more was made from a stack
\* of three states or more
C21_Witness ==
  \E c \in DOMAIN calls :
    /\ calls[c].last = "reduce"
    /\ Rule(calls[c]).length >= 2
    /\ Len(calls[c].stack) >= 2
    /\ calls[c].stack[Len(calls[c].stack)] > 1

(***************************************************************************)
(* C22.  At the top of every pass of a parse call, and when the call has   *)
(* returned or thrown, the value stack holds at least one value for every  *)
(* state above state 0; and while a semantic action of a production of k   *)
(* symbols runs, it was given exactly k arguments, taken off the value     *)
(* stack, and the value stack with the result still to be pushed holds at  *)
(* least one value for every state above state 0.                          *)
(***************************************************************************)
C22_ValuesCoverTheStack ==
  \A c \in DOMAIN calls :
    /\ calls[c].pc \in {"loop", "returned", "threw"} =>
         Len(calls[c].values) >= Len(calls[c].stack) - 1
    /\ calls[c].pc = "action" =>
         /\ Len(calls[c].args) = Rule(calls[c]).length
         /\ Len(calls[c].values) + 1 >= Len(calls[c].stack) - 1

\* the action of a production of two symbols or more runs, with values
\* left below its arguments
C22_Witness ==
  \E c \in DOMAIN calls :
    /\ calls[c].pc = "action"
    /\ Rule(calls[c]).length >= 2
    /\ Len(calls[c].values) >= 1

(***************************************************************************)
(* Termination of a parse call.  The loop of parse is while (true) in one  *)
(* synchronous call: a call that is in the loop makes its next pass, which *)
(* is weak fairness of the passes of each call.  The grammars are those of *)
(* Grammars and two with a non-terminal that reduces to itself.            *)
(***************************************************************************)
\* S: [/<A> b/], A: [/<B>/, /a/], B: [/<A>/]
UnitCycle ==
  [sT |-> "S",
   grammar |-> [S |-> <<Re(<<N("A"), T("b")>>)>>,
                A |-> <<Re(<<N("B")>>), Re(<<T("a")>>)>>,
                B |-> <<Re(<<N("A")>>)>>]]

\* S: [/<A> b/], A: [/<B>/, /a/], B: [/A/]: the literal A of B is spelt as
\* the non-terminal A
UnitNamed ==
  [sT |-> "S",
   grammar |-> [S |-> <<Re(<<N("A"), T("b")>>)>>,
                A |-> <<Re(<<N("B")>>), Re(<<T("a")>>)>>,
                B |-> <<Re(<<T("A")>>)>>]]

GrammarsLive == Grammars \o <<UnitCycle, UnitNamed>>

CompiledLive ==
  Tabulated([gi \in 1..Len(GrammarsLive) |->
               Grammar(GrammarsLive[gi].grammar, GrammarsLive[gi].sT)])

InitLive ==
  /\ g \in 1..Len(GrammarsLive)
  /\ parser = CompiledLive[g]
  /\ calls = [c \in {1} |-> Idle]
  /\ earlier = [c \in {1} |-> "idle"]
  /\ gen = NoWorkspace

\* a pass of call c, or its return from a semantic action
Step(c) ==
  Shift(c) \/ Reduce(c) \/ ActionReturn(c) \/ Accept(c) \/ Choke(c)

SpecLive == InitLive /\ [][Next]_vars /\ WF_vars(Step(1))

\* the alternatives of the grammar as given: the entries that are regular
\* expressions
AlternativesOf(G, name) ==
  {G.grammar[name][i] : i \in {n \in 1..Len(G.grammar[name]) :
                                 G.grammar[name][n].fn = ""}}

\* every terminal pattern of the grammar matches non-empty text only
TerminalsTakeText(G) ==
  \A name \in DOMAIN G.grammar :
    \A alternative \in AlternativesOf(G, name) :
      \A n \in 1..Len(alternative.toks) :
        ~alternative.toks[n].nt => alternative.toks[n].text # ""

\* the non-terminals that name has an alternative of one symbol for, that
\* symbol being a reference to them
UnitReferences(G, name) ==
  {resolve(alternative.toks[1], name) :
     alternative \in {a \in AlternativesOf(G, name) :
                        Len(a.toks) = 1 /\ a.toks[1].nt}}

\* what the names derive through chains of single-symbol productions
RECURSIVE UnitReach(_, _)
UnitReach(G, names) ==
  LET more == names \cup UNION {UnitReferences(G, n) :
                                  n \in names \cap DOMAIN G.grammar}
  IN IF more = names THEN names ELSE UnitReach(G, more)

\* no non-terminal derives itself through a chain of single-symbol
\* productions
NoUnitCycle(G) ==
  \A name \in DOMAIN G.grammar :
    name \notin UnitReach(G, UnitReferences(G, name))

(***************************************************************************)
(* C23 as claimed.  For a grammar whose terminals match non-empty text     *)
(* only and in which no non-terminal derives itself through a chain of     *)
(* single-symbol productions, a parse call that is in its loop eventually  *)
(* returns or throws.                                                      *)
(***************************************************************************)
C23_Claimed ==
  (/\ TerminalsTakeText(GrammarsLive[g])
   /\ NoUnitCycle(GrammarsLive[g])
   /\ calls[1].pc \in {"loop", "action"}) ~> Ended(1)

====
